---- MODULE Spec2Model ----
(***************************************************************************)
(* Model of mongo/db/storage/wiredtiger/wiredtiger_util.cpp:               *)
(*   wtRCToStatus_slow, WiredTigerUtil::getMetadata,                       *)
(*   getApplicationMetadata, checkApplicationMetadataFormatVersion,        *)
(*   getStatisticsValue, getIdentSize and exportTableToBSON.               *)
(* Every call runs synchronously on the calling thread; a behaviour of the *)
(* model is one call, from its entry to the way it leaves (a returned      *)
(* Status or value, an exception, or a process abort).                     *)
(***************************************************************************)
EXTENDS Integers, Sequences, FiniteSets, TLC

VARIABLES
    op,          \* the function being called ("idle" before the call)
    pc,          \* the position inside it
    args,        \* the call's arguments and what its collaborators will answer
    result,      \* how the call left: [kind, code, reason]
    retval,      \* the integer a call returned (getStatisticsValue, getIdentSize)
    bob,         \* the BSONObjBuilder the call appends to
    appMetadata, \* getApplicationMetadata: the WT_CONFIG_ITEM appMetadata
    idx,         \* getApplicationMetadata: pairs parser.next() has yielded
    keysSeen,    \* getApplicationMetadata: the unordered_set keysSeen
    cursor,      \* the statistics cursor: [opened, closed] counts
    guard,       \* whether ON_BLOCK_EXIT(cursor->close) is registered
    subs,        \* exportTableToBSON: std::map<string,BSONObjBuilder*> subs
    seen,        \* exportTableToBSON: the rows the cursor has yielded so far
    caller,      \* "getIdentSize" while getStatisticsValue runs on its behalf
    lookup       \* getIdentSize: its local StatusWith<int64_t> result

vars == <<op, pc, args, result, retval, bob, appMetadata, idx, keysSeen,
          cursor, guard, subs, seen, caller, lookup>>

metaVars == <<appMetadata, idx, keysSeen>>
statVars == <<cursor, guard, subs, seen, caller, lookup>>

----------------------------------------------------------------------------
(* Engine return codes (wiredtiger.h, errno.h) as the source names them.   *)

WT_ROLLBACK == -31800
WT_NOTFOUND == -31803
WT_PANIC == -31804
EINVAL == 22

\* Bounds of the model.
MaxErrno == 24      \* the plain codes tried are -MaxErrno .. MaxErrno

NULL == "NULL"

Codes == (-MaxErrno .. MaxErrno) \cup {WT_ROLLBACK, WT_NOTFOUND, WT_PANIC, -31802, -31801}
Prefixes == {NULL, "", "ctx"}

\* wiredtiger_strerror: the engine's text for a code.
wiredtiger_strerror(rc) ==
    CASE rc = WT_ROLLBACK -> "WT_ROLLBACK: conflict between concurrent operations"
      [] rc = WT_NOTFOUND -> "WT_NOTFOUND: item not found"
      [] rc = WT_PANIC -> "WT_PANIC: WiredTiger library panic"
      [] rc = EINVAL -> "Invalid argument"
      [] OTHER -> "error"

\* How a call leaves.
NoResult == [kind |-> "none", code |-> "", reason |-> <<>>]
StatusOK == [kind |-> "status", code |-> "OK", reason |-> <<>>]
Status(code, reason) == [kind |-> "status", code |-> code, reason |-> reason]
Throw(what) == [kind |-> "throw", code |-> what, reason |-> <<>>]
Abort(what) == [kind |-> "abort", code |-> what, reason |-> <<>>]

\* str::stream s; if (prefix) s << prefix << " "; s << retCode << ": " << strerror
errorMessage(retCode, prefix) ==
    (IF prefix # NULL THEN <<prefix, " ">> ELSE <<>>)
        \o <<ToString(retCode), ": ", wiredtiger_strerror(retCode)>>

\* Mutants of wtRCToStatus_slow: the WT_ROLLBACK test dropped; the EINVAL
\* test dropped.
wtRCToStatus_noConflict(retCode, prefix) ==
    IF retCode = 0 THEN StatusOK
    ELSE IF retCode = WT_PANIC THEN Abort("fassert 28559")
    ELSE IF retCode = EINVAL THEN Status("BadValue", errorMessage(retCode, prefix))
    ELSE Status("UnknownError", errorMessage(retCode, prefix))

wtRCToStatus_noBadValue(retCode, prefix) ==
    IF retCode = 0 THEN StatusOK
    ELSE IF retCode = WT_ROLLBACK THEN Throw("WriteConflictException")
    ELSE IF retCode = WT_PANIC THEN Abort("fassert 28559")
    ELSE Status("UnknownError", errorMessage(retCode, prefix))

wtRCToStatus_slow(retCode, prefix) ==
    IF retCode = 0 THEN StatusOK
    ELSE IF retCode = WT_ROLLBACK THEN Throw("WriteConflictException")
    ELSE IF retCode = WT_PANIC THEN Abort("fassert 28559")
    ELSE IF retCode = EINVAL THEN Status("BadValue", errorMessage(retCode, prefix))
    ELSE Status("UnknownError", errorMessage(retCode, prefix))

----------------------------------------------------------------------------
Init ==
    /\ op = "idle"
    /\ pc = "idle"
    /\ args = [none |-> TRUE]
    /\ result = NoResult
    /\ retval = 0
    /\ bob = <<>>
    /\ appMetadata = [none |-> TRUE]
    /\ idx = 0
    /\ keysSeen = {}
    /\ cursor = [opened |-> 0, closed |-> 0]
    /\ guard = FALSE
    /\ subs = <<>>
    /\ seen = <<>>
    /\ caller = "none"
    /\ lookup = [none |-> TRUE]

\* A call of wtRCToStatus_slow(retCode, prefix).
Translate ==
    /\ op = "idle"
    /\ \E rc \in Codes, p \in Prefixes :
          /\ args' = [retCode |-> rc, prefix |-> p]
          /\ result' = wtRCToStatus_slow(rc, p)
    /\ op' = "wtRCToStatus_slow"
    /\ pc' = "done"
    /\ UNCHANGED <<retval, bob, metaVars, statVars>>

----------------------------------------------------------------------------
(* The configuration grammar as the metadata service sees it.  A            *)
(* WT_CONFIG_ITEM is [type, len, val, str]; the model adds what a           *)
(* WiredTigerConfigParser constructed over the item yields: the pairs       *)
(* next() returns with 0, in order, and the code that ends the iteration    *)
(* (WT_NOTFOUND when the text is exhausted, another code on malformed       *)
(* text).                                                                   *)

MaxPairs == 3       \* pairs in one app_metadata struct
MaxVersion == 4     \* formatVersion values and version bounds are 1 .. MaxVersion

Scalar(type, val, str, len) ==
    [type |-> type, len |-> len, val |-> val, str |-> str,
     items |-> <<>>, endRet |-> WT_NOTFOUND]
BoolItem == Scalar("BOOL", 1, "true", 4)
NumItem(n) == Scalar("NUM", n, ToString(n), 1)
StrItem == Scalar("STRING", 0, "s", 1)
EmptyItem == Scalar("STRING", 0, "", 0)
StructItem(items, endRet) ==
    [type |-> "STRUCT", len |-> 2 + Len(items), val |-> 0, str |-> "(...)",
     items |-> items, endRet |-> endRet]
Pair(k, v) == [key |-> k, value |-> v]

Versions == 1 .. MaxVersion
MetaPairs ==
    {Pair("a", BoolItem), Pair("a", NumItem(7)), Pair("a", StrItem), Pair("b", NumItem(7)),
     Pair("formatVersion", StrItem)}
        \cup {Pair("formatVersion", NumItem(v)) : v \in Versions}
PairSeqs == UNION {[1 .. n -> MetaPairs] : n \in 0 .. MaxPairs}
EndRets == {WT_NOTFOUND, EINVAL, WT_ROLLBACK}
Structs == {StructItem(ps, e) : ps \in PairSeqs, e \in EndRets}

\* The raw metadata strings tried: without "app_metadata", and with it as a
\* struct, as a plain string, and as an empty value.
RawWithout == {<<>>, <<Pair("key_format", StrItem)>>}
RawWith(item) == <<Pair("key_format", StrItem), Pair("app_metadata", item)>>
RawsWith == {RawWith(i) : i \in Structs \cup {StrItem, EmptyItem}}

\* WiredTigerConfigParser::get: the engine keeps the last value given to a
\* key; the positions of `key` among the parser's pairs.
Positions(items, key) == {i \in 1 .. Len(items) : items[i].key = key}
configHas(items, key) == Positions(items, key) # {}
configGet(items, key) ==
    LET ps == Positions(items, key)
    IN  items[CHOOSE i \in ps : \A j \in ps : j <= i].value

\* What a WT_CONFIG_ITEM that get() left unset may hold: the struct is a
\* local without an initializer, so each field is whatever the stack held.
Uninitialized ==
    {EmptyItem, StrItem, NumItem(7),
     StructItem(<<>>, WT_NOTFOUND),
     StructItem(<<Pair("a", BoolItem)>>, WT_NOTFOUND),
     StructItem(<<Pair("a", BoolItem), Pair("a", StrItem)>>, WT_NOTFOUND),
     StructItem(<<>>, EINVAL)}

\* What the metadata cursor answers: search's code, get_value's code.
CursorAnswers ==
    {[search |-> 0, get_value |-> 0]}
        \cup {[search |-> c, get_value |-> 0] : c \in {WT_NOTFOUND, EINVAL, WT_ROLLBACK, WT_PANIC}}
        \cup {[search |-> 0, get_value |-> c] : c \in {EINVAL, WT_ROLLBACK}}

\* WiredTigerUtil::getMetadata: the Status part of its StatusWith<string>
\* (the string, when OK, is the raw metadata).
getMetadata(answer) ==
    IF answer.search = WT_NOTFOUND
    THEN Status("NoSuchKey", <<"Unable to find metadata for ", "uri">>)
    ELSE IF answer.search # 0 THEN wtRCToStatus_slow(answer.search, NULL)
    ELSE IF answer.get_value # 0 THEN wtRCToStatus_slow(answer.get_value, NULL)
    ELSE StatusOK

\* bob->appendBool / appendIntOrLL / append: one more element at the end of
\* the builder, whatever it already holds.
Element(name, type, v) == [name |-> name, type |-> type, v |-> v]
appendElement(b, e) == Append(b, e)

\* The switch on valueItem.type.
coerce(key, valueItem) ==
    CASE valueItem.type = "BOOL" -> Element(key, "bool", valueItem.val # 0)
      [] valueItem.type = "NUM" -> Element(key, "int", valueItem.val)
      [] OTHER -> Element(key, "string", valueItem.str)

\* Mutant of keysSeenCount: the set is never consulted.
keysSeenCount_never(set, key) == 0

\* keysSeen.count(key)
keysSeenCount(set, key) == IF key \in set THEN 1 ELSE 0

\* getApplicationMetadata, from its entry to the start of the loop: the
\* fetch, the lookup of "app_metadata" (whose failure is not returned: the
\* statement `Status::OK();` has no `return`), the len and type tests.
GetApplicationMetadataCall ==
    /\ op = "idle"
    /\ op' = "getApplicationMetadata"
    /\ \E answer \in CursorAnswers, raw \in RawWithout \cup RawsWith :
         /\ answer.search # 0 \/ answer.get_value # 0 => raw = <<>>
         /\ args' = [answer |-> answer, raw |-> raw]
         /\ LET metadataResult == getMetadata(answer)
            IN  IF metadataResult # StatusOK
                THEN /\ result' = metadataResult
                     /\ pc' = "done"
                     /\ UNCHANGED appMetadata
                ELSE /\ \E item \in (IF configHas(raw, "app_metadata")
                                       THEN {configGet(raw, "app_metadata")}
                                       ELSE Uninitialized) :
                          /\ appMetadata' = item
                          /\ IF item.len = 0
                             THEN result' = StatusOK /\ pc' = "done"
                             ELSE IF item.type # "STRUCT"
                             THEN /\ result' = Status("FailedToParse",
                                        <<"app_metadata must be a nested struct. Actual value: ",
                                          item.str>>)
                                  /\ pc' = "done"
                             ELSE result' = NoResult /\ pc' = "loop"
    /\ UNCHANGED <<retval, bob, idx, keysSeen, statVars>>

\* One turn of while ((ret = parser.next(&keyItem, &valueItem)) == 0), or
\* the code after the loop when next() returns nonzero.
GetApplicationMetadataNext ==
    /\ op = "getApplicationMetadata"
    /\ pc = "loop"
    /\ IF idx < Len(appMetadata.items)
       THEN LET keyItem == appMetadata.items[idx + 1].key
                valueItem == appMetadata.items[idx + 1].value
            IN  IF keysSeenCount(keysSeen, keyItem) # 0
                THEN /\ result' = Status("DuplicateKey",
                            <<"app_metadata must not contain duplicate keys. ",
                              "Found multiple instances of key '", keyItem, "'.">>)
                     /\ pc' = "done"
                     /\ UNCHANGED <<bob, idx, keysSeen>>
                ELSE /\ keysSeen' = keysSeen \cup {keyItem}
                     /\ bob' = appendElement(bob, coerce(keyItem, valueItem))
                     /\ idx' = idx + 1
                     /\ UNCHANGED <<result, pc>>
       ELSE /\ result' = IF appMetadata.endRet # WT_NOTFOUND
                         THEN wtRCToStatus_slow(appMetadata.endRet, NULL)
                         ELSE StatusOK
            /\ pc' = "done"
            /\ UNCHANGED <<bob, idx, keysSeen>>
    /\ UNCHANGED <<op, args, retval, appMetadata, statVars>>

\* Mutant of versionUnsupported: the upper bound is exclusive.
versionUnsupported_exclusive(version, minimumVersion, maximumVersion) ==
    version < minimumVersion \/ version >= maximumVersion

\* version < minimumVersion || version > maximumVersion
versionUnsupported(version, minimumVersion, maximumVersion) ==
    version < minimumVersion \/ version > maximumVersion

\* checkApplicationMetadataFormatVersion's Status once the fetch succeeded.
checkFormatVersion(raw, minimumVersion, maximumVersion) ==
    IF ~configHas(raw, "app_metadata")
    THEN Status("UnsupportedFormat", <<"application metadata for ", "uri", " is missing ">>)
    ELSE LET metadata == configGet(raw, "app_metadata")
             found == configHas(metadata.items, "formatVersion")
             versionItem == configGet(metadata.items, "formatVersion")
         IN  IF found /\ versionItem.type # "NUM"
             THEN Status("UnsupportedFormat",
                         <<"'formatVersion' in application metadata for ", "uri",
                           " must be a number. Current value: ", versionItem.str>>)
             ELSE LET version == IF ~found THEN 1 ELSE versionItem.val
                  IN  IF versionUnsupported(version, minimumVersion, maximumVersion)
                      THEN Status("UnsupportedFormat",
                                  <<"Application metadata for ", "uri",
                                    " has unsupported format version ", ToString(version)>>)
                      ELSE StatusOK

\* A call of checkApplicationMetadataFormatVersion(opCtx, uri, min, max).
CheckApplicationMetadataFormatVersion ==
    /\ op = "idle"
    /\ op' = "checkApplicationMetadataFormatVersion"
    /\ pc' = "done"
    /\ \E answer \in CursorAnswers, raw \in RawWithout \cup RawsWith,
          minimumVersion \in Versions, maximumVersion \in Versions :
         /\ answer.search # 0 \/ answer.get_value # 0 =>
                raw = <<>> /\ minimumVersion = 1 /\ maximumVersion = 1
         /\ configHas(raw, "app_metadata") =>
                configGet(raw, "app_metadata").endRet = WT_NOTFOUND
         /\ args' = [answer |-> answer, raw |-> raw,
                     minimumVersion |-> minimumVersion, maximumVersion |-> maximumVersion]
         /\ LET fetched == getMetadata(answer)
            IN  result' =
                  IF fetched.kind = "status" /\ fetched.code = "NoSuchKey" THEN fetched
                  ELSE IF fetched.kind = "status" /\ fetched.code # "OK"
                  THEN Abort("invariantOK")
                  ELSE IF fetched.kind # "status" THEN fetched
                  ELSE checkFormatVersion(raw, minimumVersion, maximumVersion)
    /\ UNCHANGED <<retval, bob, metaVars, statVars>>

----------------------------------------------------------------------------
(* The statistics service.  Text the code takes apart (a row's             *)
(* description) is a sequence of one-character strings.                    *)

StatBits == 7       \* width of a statistics value (64 in the build)
MaxDescLen == 3     \* length of the generated row descriptions
MaxRows == 3        \* rows one export reads

npos == -1

MaxUnsigned == 2 ^ StatBits - 1
MaxSigned == 2 ^ (StatBits - 1) - 1

Letters == <<"a", "b", "c", "d", "e", "f", "g", "h", "i", "j", "k", "l", "m",
             "n", "o", "p", "q", "r", "s", "t", "u", "v", "w", "x", "y", "z">>
\* The character's code (ASCII).
Ord(c) ==
    IF c = " " THEN 32
    ELSE IF c = ":" THEN 58
    ELSE 96 + CHOOSE i \in 1 .. Len(Letters) : Letters[i] = c

\* std::string's operator<, the order std::map<string, ...> keeps its keys in.
stringLess(a, b) ==
    \E i \in 1 .. Len(b) :
        /\ \A j \in 1 .. i - 1 : j <= Len(a) /\ a[j] = b[j]
        /\ i <= Len(a) => Ord(a[i]) < Ord(b[i])

\* Mutant of mapOrder: the keys in descending order.
RECURSIVE mapOrder_descending(_)
mapOrder_descending(keys) ==
    IF keys = {} THEN <<>>
    ELSE LET last == CHOOSE k \in keys : \A j \in keys \ {k} : stringLess(j, k)
         IN  <<last>> \o mapOrder_descending(keys \ {last})

\* The keys of a std::map in the order its iterator visits them.
RECURSIVE mapOrder(_)
mapOrder(keys) ==
    IF keys = {} THEN <<>>
    ELSE LET first == CHOOSE k \in keys : \A j \in keys \ {k} : stringLess(k, j)
         IN  <<first>> \o mapOrder(keys \ {first})

\* StringData::find(char): the 0-based position of the first c, or npos.
find(key, c) ==
    IF \E i \in 1 .. Len(key) : key[i] = c
    THEN (CHOOSE i \in 1 .. Len(key) : key[i] = c /\ \A j \in 1 .. i - 1 : key[j] # c) - 1
    ELSE npos

\* StringData::substr(pos, n) and substr(pos), positions 0-based.
substr(key, pos, n) == SubSeq(key, pos + 1, pos + n)
substrFrom(key, pos) == SubSeq(key, pos + 1, Len(key))

\* Mutant of splitDescription: the blank is looked for before the colon.
splitDescription_blankFirst(key) ==
    LET blank == find(key, " ")
        i == IF blank # npos THEN blank ELSE find(key, ":")
    IN  IF i # npos
        THEN [prefix |-> substr(key, 0, i), suffix |-> substrFrom(key, i + 1)]
        ELSE [prefix |-> key, suffix |-> <<"n", "u", "m">>]

\* Lines 285-304: the prefix and the suffix of a row description.
splitDescription(key) ==
    LET colon == find(key, ":")
        i == IF colon # npos THEN colon ELSE find(key, " ")
    IN  IF i # npos
        THEN [prefix |-> substr(key, 0, i), suffix |-> substrFrom(key, i + 1)]
        ELSE [prefix |-> key, suffix |-> <<"n", "u", "m">>]

\* mongoutils::str::ltrim
RECURSIVE ltrim(_)
ltrim(str) == IF str # <<>> /\ Head(str) = " " THEN ltrim(Tail(str)) ELSE str

\* _castStatisticsValue<long long>(uint64_t): a value that fits is kept; for
\* one that does not, the narrowing either saturates or wraps.
castStatisticsValue(value) ==
    IF value <= MaxSigned THEN {value} ELSE {MaxSigned, value - 2 ^ StatBits}

\* The guard ON_BLOCK_EXIT(cursor->close, cursor) when its scope is left.
onBlockExit(c, registered) == IF registered THEN [c EXCEPT !.closed = @ + 1] ELSE c

\* session->open_cursor succeeded.
openCursor(c) == [c EXCEPT !.opened = @ + 1]

StatValues == {1, 42, MaxSigned, MaxSigned + 1, MaxUnsigned}
\* What the statistics cursor answers to open_cursor, search and get_value.
StatAnswers ==
    {[open |-> 0, search |-> 0, get_value |-> 0, value |-> v] : v \in StatValues}
        \cup {[open |-> o, search |-> s, get_value |-> g, value |-> 1] :
                 o \in {0, EINVAL, 2}, s \in {0, WT_NOTFOUND, EINVAL}, g \in {0, EINVAL}}

\* getStatisticsValue up to the registration of the guard (lines 214-224).
statisticsOpen(answer, who) ==
    /\ op = "idle"
    /\ op' = "getStatisticsValue"
    /\ caller' = who
    /\ args' = answer
    /\ IF answer.open # 0
       THEN /\ result' = Status("CursorNotFound",
                            <<"unable to open cursor at URI ", "uri", ". reason: ",
                              wiredtiger_strerror(answer.open)>>)
            /\ pc' = "return"
            /\ UNCHANGED <<cursor, guard>>
       ELSE /\ cursor' = openCursor(cursor)
            /\ guard' = TRUE
            /\ result' = NoResult
            /\ pc' = "search"
    /\ UNCHANGED <<retval, bob, metaVars, subs, seen, lookup>>

\* A direct call of getStatisticsValue(session, uri, config, statisticsKey).
GetStatisticsValueCall == \E answer \in StatAnswers : statisticsOpen(answer, "none")

\* A call of getIdentSize(s, uri), which starts with the lookup.
GetIdentSizeCall == \E answer \in StatAnswers : statisticsOpen(answer, "getIdentSize")

\* cursor->search and the NoSuchKey return (lines 226-232).
GetStatisticsValueSearch ==
    /\ op = "getStatisticsValue"
    /\ pc = "search"
    /\ IF args.search # 0
       THEN /\ result' = Status("NoSuchKey",
                            <<"unable to find key ", "statisticsKey", " at URI ", "uri",
                              ". reason: ", wiredtiger_strerror(args.search)>>)
            /\ cursor' = onBlockExit(cursor, guard)
            /\ pc' = "return"
       ELSE /\ pc' = "get_value"
            /\ UNCHANGED <<result, cursor>>
    /\ UNCHANGED <<op, args, retval, bob, metaVars, guard, subs, seen, caller, lookup>>

\* cursor->get_value, the BadValue return and the normal return (lines 234-242).
GetStatisticsValueGetValue ==
    /\ op = "getStatisticsValue"
    /\ pc = "get_value"
    /\ IF args.get_value # 0
       THEN /\ result' = Status("BadValue",
                            <<"unable to get value for key ", "statisticsKey", " at URI ",
                              "uri", ". reason: ", wiredtiger_strerror(args.get_value)>>)
            /\ UNCHANGED retval
       ELSE /\ result' = StatusOK
            /\ retval' = args.value
    /\ cursor' = onBlockExit(cursor, guard)
    /\ pc' = "return"
    /\ UNCHANGED <<op, args, bob, metaVars, guard, subs, seen, caller, lookup>>

\* An exception out of the building of an error Status (str::stream and
\* Status allocate): the stack unwinds through the guard.
GetStatisticsValueEscape ==
    /\ op = "getStatisticsValue"
    /\ \/ pc = "search" /\ args.search # 0
       \/ pc = "get_value" /\ args.get_value # 0
    /\ result' = Throw("std::bad_alloc")
    /\ cursor' = onBlockExit(cursor, guard)
    /\ pc' = "done"
    /\ UNCHANGED <<op, args, retval, bob, metaVars, guard, subs, seen, caller, lookup>>

\* getStatisticsValue has returned to a caller other than getIdentSize.
GetStatisticsValueReturn ==
    /\ op = "getStatisticsValue"
    /\ pc = "return"
    /\ caller = "none"
    /\ pc' = "done"
    /\ UNCHANGED <<op, args, result, retval, bob, metaVars, statVars>>

\* Mutant of identSize: CursorNotFound is not absorbed.
identSize_noAbsorb(res) ==
    IF res.status.code # "OK"
    THEN [result |-> [kind |-> "throw", code |-> "UserException",
                      reason |-> <<res.status.code>> \o res.status.reason],
          retval |-> 0]
    ELSE [result |-> [kind |-> "value", code |-> "", reason |-> <<>>], retval |-> res.value]

\* Lines 250-258: what getIdentSize makes of the lookup's StatusWith.
identSize(res) ==
    IF res.status.code # "OK"
    THEN IF res.status.code = "CursorNotFound"
         THEN [result |-> [kind |-> "value", code |-> "", reason |-> <<>>], retval |-> 0]
         ELSE [result |-> [kind |-> "throw", code |-> "UserException",
                           reason |-> <<res.status.code>> \o res.status.reason],
               retval |-> 0]
    ELSE [result |-> [kind |-> "value", code |-> "", reason |-> <<>>], retval |-> res.value]

\* getStatisticsValueAs<int64_t> hands getIdentSize the lookup's Status, or
\* its value narrowed to int64_t; getIdentSize then leaves.
GetIdentSizeReturn ==
    /\ op = "getStatisticsValue"
    /\ pc = "return"
    /\ caller = "getIdentSize"
    /\ op' = "getIdentSize"
    /\ pc' = "done"
    /\ \E v \in (IF result.code = "OK" THEN castStatisticsValue(retval) ELSE {0}) :
         /\ lookup' = [status |-> result, value |-> v]
         /\ result' = identSize(lookup').result
         /\ retval' = identSize(lookup').retval
    /\ UNCHANGED <<args, bob, metaVars, cursor, guard, subs, seen, caller>>

----------------------------------------------------------------------------
(* exportTableToBSON.  A row of the statistics cursor is [desc, value].    *)

Row(desc, value) == [desc |-> desc, value |-> value]

CachePagesRead == <<"c", "a", "c", "h", "e", ":", "p", "a", "g", "e", "s", " ", "r", "e", "a", "d">>
BytesWritten == <<"b", "y", "t", "e", "s", " ", "w", "r", "i", "t", "t", "e", "n">>
Objects == <<"o", "b", "j", "e", "c", "t", "s">>
Uri == <<"u", "r", "i">>

\* The descriptions tried.  The first row of an export is any text of at most
\* MaxDescLen characters over a letter and the two delimiters, or a
\* description of the engine's own kind; the rows after it are drawn from a
\* few descriptions that repeat and reorder prefixes and suffixes.
Alphabet == {"a", ":", " "}
GeneratedDescs == UNION {[1 .. n -> Alphabet] : n \in 0 .. MaxDescLen}
LaterDescs == {<<"a">>, <<"b">>, <<"a", " ", "a">>, <<"a", ":", "a">>}
FirstRows ==
    {Row(d, v) : d \in GeneratedDescs \cup LaterDescs
                      \cup {CachePagesRead, BytesWritten, Objects},
                 v \in {42, MaxUnsigned}}
LaterRows == {Row(d, 1) : d \in LaterDescs} \cup {Row(<<"a">>, 42)}

\* bob->append(name, sub.obj())
SubDocument(name, elements) == Element(name, "object", elements)

\* exportTableToBSON up to the answer of open_cursor (lines 265-274).
ExportTableToBSONCall ==
    /\ op = "idle"
    /\ op' = "exportTableToBSON"
    /\ \E open \in {0, EINVAL} :
         /\ args' = [open |-> open]
         /\ IF open # 0
            THEN /\ result' = Status("CursorNotFound",
                                 <<"unable to open cursor at URI ", "uri", ". reason: ",
                                   wiredtiger_strerror(open)>>)
                 /\ pc' = "done"
                 /\ UNCHANGED cursor
            ELSE /\ cursor' = openCursor(cursor)
                 /\ result' = NoResult
                 /\ pc' = "append_uri"
    /\ UNCHANGED <<retval, bob, metaVars, guard, subs, seen, caller, lookup>>

\* bob->append("uri", uri); invariant(c); ON_BLOCK_EXIT(c->close, c);
ExportTableToBSONAppendUri ==
    /\ op = "exportTableToBSON"
    /\ pc = "append_uri"
    /\ bob' = appendElement(bob, Element(Uri, "string", "uri"))
    /\ guard' = TRUE
    /\ pc' = "loop"
    /\ UNCHANGED <<op, args, result, retval, metaVars, cursor, subs, seen, caller, lookup>>

\* Mutant of subsAppend: an element of the same name is replaced.
subsAppend_overwrite(map, prefix, e) ==
    [p \in DOMAIN map \cup {prefix} |->
        IF p = prefix
        THEN IF prefix \in DOMAIN map /\ \E i \in 1 .. Len(map[prefix]) : map[prefix][i].name = e.name
             THEN [i \in 1 .. Len(map[prefix]) |->
                      IF map[prefix][i].name = e.name THEN e ELSE map[prefix][i]]
             ELSE appendElement(IF prefix \in DOMAIN map THEN map[prefix] ELSE <<>>, e)
        ELSE map[p]]

\* The map entry subs[prefix] after sub->appendNumber(name, v), the builder
\* being created on first use.
subsAppend(map, prefix, e) ==
    [p \in DOMAIN map \cup {prefix} |->
        IF p = prefix
        THEN appendElement(IF prefix \in DOMAIN map THEN map[prefix] ELSE <<>>, e)
        ELSE map[p]]

\* One turn of the while loop: next() and get_value() return 0 (lines 282-317).
ExportTableToBSONRow ==
    /\ op = "exportTableToBSON"
    /\ pc = "loop"
    /\ Len(seen) < MaxRows
    /\ \E row \in (IF seen = <<>> THEN FirstRows ELSE LaterRows) :
         LET key == row.desc
             prefix == splitDescription(key).prefix
             suffix == splitDescription(key).suffix
         IN  \E v \in castStatisticsValue(row.value) :
               /\ seen' = Append(seen, row)
               /\ IF Len(prefix) = 0
                  THEN /\ bob' = appendElement(bob, Element(key, "number", v))
                       /\ UNCHANGED subs
                  ELSE /\ subs' = subsAppend(subs, prefix, Element(ltrim(suffix), "number", v))
                       /\ UNCHANGED bob
    /\ UNCHANGED <<op, pc, args, result, retval, metaVars, cursor, guard, caller, lookup>>

\* Lines 319-325: the sub-documents are appended as the map's iterator
\* visits them, and the function returns OK through the guard.
exportFlush ==
    /\ bob' = bob \o [i \in 1 .. Cardinality(DOMAIN subs) |->
                         SubDocument(mapOrder(DOMAIN subs)[i], subs[mapOrder(DOMAIN subs)[i]])]
    /\ result' = StatusOK
    /\ cursor' = onBlockExit(cursor, guard)
    /\ pc' = "done"
    /\ UNCHANGED <<op, retval, metaVars, guard, subs, seen, caller, lookup>>

\* The loop ends: next() returns nonzero, or next() returns 0 and
\* get_value() nonzero.
ExportTableToBSONEnd ==
    /\ op = "exportTableToBSON"
    /\ pc = "loop"
    /\ \/ args' = [open |-> 0, end |-> "next"] /\ exportFlush
       \/ args' = [open |-> 0, end |-> "get_value"] /\ exportFlush

\* An exception out of a builder or the map: BSONObjBuilder's append grows
\* its buffer and raises once the buffer would pass its size limit.  At
\* line 275 the guard is not registered yet; in the loop it is.
ExportTableToBSONEscape ==
    /\ op = "exportTableToBSON"
    /\ pc \in {"append_uri", "loop"}
    /\ result' = Throw("MsgAssertionException")
    /\ cursor' = onBlockExit(cursor, guard)
    /\ pc' = "done"
    /\ UNCHANGED <<op, args, retval, bob, metaVars, guard, subs, seen, caller, lookup>>

----------------------------------------------------------------------------
(* Claims about the status translator.                                     *)

Translated == op = "wtRCToStatus_slow" /\ pc = "done"

\* C2: wtRCToStatus_slow called with WT_ROLLBACK, with any prefix or with
\* none, never returns a Status: it leaves by throwing WriteConflictException.
C2_ConflictAlwaysThrows ==
    Translated /\ args.retCode = WT_ROLLBACK =>
        /\ result.kind = "throw"
        /\ result.code = "WriteConflictException"
        /\ result.kind # "status"

C2_Witness ==
    /\ Translated
    /\ args.retCode = WT_ROLLBACK
    /\ args.prefix = "ctx"
    /\ result.kind = "throw"

\* C3: for a code that is neither WT_ROLLBACK nor WT_PANIC the call returns a
\* Status fixed by the code alone: OK exactly for 0, BadValue exactly for
\* EINVAL, UnknownError for every other code; WT_PANIC aborts and returns
\* nothing; the prefix changes the message only, never the kind or the code.
C3_StatusByCodeAlone ==
    Translated =>
        /\ args.retCode \notin {WT_ROLLBACK, WT_PANIC} =>
             /\ result.kind = "status"
             /\ result.code = "OK" <=> args.retCode = 0
             /\ result.code = "BadValue" <=> args.retCode = EINVAL
             /\ args.retCode \notin {0, EINVAL} => result.code = "UnknownError"
        /\ args.retCode = WT_PANIC => result.kind = "abort"
        /\ \A p \in Prefixes :
             /\ wtRCToStatus_slow(args.retCode, p).kind = result.kind
             /\ wtRCToStatus_slow(args.retCode, p).code = result.code
        /\ result.kind = "status" /\ result.code # "OK" /\ args.prefix # NULL =>
             /\ Head(result.reason) = args.prefix
             /\ result.reason # wtRCToStatus_slow(args.retCode, NULL).reason

C3_Witness ==
    /\ Translated
    /\ args.retCode = EINVAL
    /\ args.prefix = "ctx"
    /\ result = Status("BadValue", <<"ctx", " ", "22", ": ", "Invalid argument">>)

----------------------------------------------------------------------------
(* Claims about the metadata service.                                      *)

Fetched == args.answer.search = 0 /\ args.answer.get_value = 0
HasAppMetadata == configHas(args.raw, "app_metadata")
DuplicateAt(items, j) == \E i \in 1 .. j - 1 : items[i].key = items[j].key
HasDuplicateKey(items) == \E j \in 1 .. Len(items) : DuplicateAt(items, j)
FirstDuplicate(items) ==
    CHOOSE j \in 1 .. Len(items) :
        DuplicateAt(items, j) /\ \A k \in 1 .. j - 1 : ~DuplicateAt(items, k)
DistinctNames(doc) == \A i, j \in 1 .. Len(doc) : doc[i].name = doc[j].name => i = j

\* C4: getApplicationMetadata over an app_metadata struct in which a key
\* occurs twice returns DuplicateKey naming that key, whatever the kinds of
\* the values; the builder never holds two elements of one name, and at the
\* repeat it holds exactly the pairs read before it.
C4_DuplicateKeyRejected ==
    op = "getApplicationMetadata" =>
        /\ DistinctNames(bob)
        /\ pc = "done" /\ Fetched /\ HasAppMetadata /\ appMetadata.type = "STRUCT"
              /\ HasDuplicateKey(appMetadata.items) =>
             /\ result.kind = "status"
             /\ result.code = "DuplicateKey"
             /\ result.reason[3] = appMetadata.items[FirstDuplicate(appMetadata.items)].key
             /\ Len(bob) = FirstDuplicate(appMetadata.items) - 1
        /\ pc = "done" /\ result = StatusOK /\ Fetched /\ appMetadata.type = "STRUCT" =>
             ~HasDuplicateKey(appMetadata.items)

C4_Witness ==
    /\ op = "getApplicationMetadata"
    /\ pc = "done"
    /\ HasAppMetadata
    /\ Len(appMetadata.items) = 3
    /\ appMetadata.items[1].key = appMetadata.items[3].key
    /\ appMetadata.items[1].value.type = "BOOL"
    /\ appMetadata.items[3].value.type = "STRING"
    /\ appMetadata.items[2].key = "b"
    /\ result.code = "DuplicateKey"
    /\ Len(bob) = 2

\* C5: when the fetch succeeds and the raw string has no "app_metadata" key,
\* getApplicationMetadata returns OK and appends nothing.
C5_AbsentIsEmptySuccess ==
    op = "getApplicationMetadata" /\ Fetched /\ ~HasAppMetadata =>
        /\ bob = <<>>
        /\ pc = "done" => result = StatusOK

\* C6: over metadata with an app_metadata struct the version check returns OK
\* exactly when minimumVersion <= version <= maximumVersion, version being
\* formatVersion's value when it is there as a number and 1 when it is not
\* there; otherwise (out of range, or formatVersion not a number) it returns
\* UnsupportedFormat.  With (2, 3): 1 and no formatVersion fail, 2 and 3
\* pass, 4 fails.
C6_VersionWithinBounds ==
    op = "checkApplicationMetadataFormatVersion" /\ Fetched /\ HasAppMetadata
        /\ configGet(args.raw, "app_metadata").type = "STRUCT" =>
      LET struct == configGet(args.raw, "app_metadata").items
          at == {i \in 1 .. Len(struct) : struct[i].key = "formatVersion"}
          item == struct[CHOOSE i \in at : \A j \in at : j <= i].value
          numeric == at = {} \/ item.type = "NUM"
          version == IF at = {} THEN 1 ELSE item.val
          lo == args.minimumVersion
          hi == args.maximumVersion
      IN  /\ result.kind = "status"
          /\ result = StatusOK <=> numeric /\ lo <= version /\ version <= hi
          /\ result # StatusOK => result.code = "UnsupportedFormat"
          /\ lo = 2 /\ hi = 3 /\ numeric =>
               /\ version \in {2, 3} => result = StatusOK
               /\ version = 1 \/ version = 4 => result.code = "UnsupportedFormat"

C6_Witness ==
    /\ op = "checkApplicationMetadataFormatVersion"
    /\ Fetched
    /\ args.raw = RawWith(StructItem(<<Pair("a", BoolItem), Pair("formatVersion", NumItem(3))>>,
                                     WT_NOTFOUND))
    /\ args.minimumVersion = 2
    /\ args.maximumVersion = 3
    /\ result = StatusOK

----------------------------------------------------------------------------
(* Claims about the statistics service.                                    *)

StatisticsOps == {"getStatisticsValue", "getIdentSize", "exportTableToBSON"}
Exited == pc \in {"return", "done"}

\* C1: in getStatisticsValue and exportTableToBSON a cursor whose open
\* succeeded is closed exactly once by the time the call has left, however
\* it leaves (return, error return, end of the rows, exception), and nothing
\* is closed when the open failed.
C1_CursorClosedOnEveryExit ==
    op \in StatisticsOps =>
        /\ cursor.closed <= cursor.opened
        /\ Exited => cursor.closed = cursor.opened
        /\ Exited /\ args.open # 0 => cursor.opened = 0 /\ cursor.closed = 0
        /\ Exited /\ args.open = 0 => cursor.opened = 1 /\ cursor.closed = 1

IdentSizeDone == op = "getIdentSize" /\ pc = "done"
LookupFailedOtherwise == lookup.status.code \in {"NoSuchKey", "BadValue"}

\* C7 as claimed: getIdentSize returns 0 when the lookup fails with
\* CursorNotFound, stops the process with a fatal assertion on any other
\* lookup failure, and returns the looked-up value when the lookup succeeds.
C7_OtherFailureIsFatal ==
    IdentSizeDone =>
        /\ lookup.status.code = "CursorNotFound" => result.kind = "value" /\ retval = 0
        /\ LookupFailedOtherwise => result.kind = "abort"
        /\ lookup.status.code = "OK" =>
             result.kind = "value" /\ retval \in castStatisticsValue(args.value)

\* C7 as the code has it: getIdentSize returns 0 when the statistics cursor
\* cannot be opened (CursorNotFound); on NoSuchKey or BadValue it raises a
\* user assertion (uassertStatusOK: an exception carrying that status, no
\* abort) and returns nothing; when the lookup succeeds it returns the value
\* narrowed to int64_t, which is the looked-up value whenever that fits.
C7_IdentSize ==
    IdentSizeDone =>
        /\ args.open # 0 =>
             lookup.status.code = "CursorNotFound" /\ result.kind = "value" /\ retval = 0
        /\ args.open = 0 /\ args.search # 0 => lookup.status.code = "NoSuchKey"
        /\ args.open = 0 /\ args.search = 0 /\ args.get_value # 0 =>
             lookup.status.code = "BadValue"
        /\ LookupFailedOtherwise =>
             /\ result.kind = "throw"
             /\ result.code = "UserException"
             /\ Head(result.reason) = lookup.status.code
        /\ args.open = 0 /\ args.search = 0 /\ args.get_value = 0 =>
             /\ lookup.status.code = "OK"
             /\ result.kind = "value"
             /\ args.value <= MaxSigned => retval = args.value
             /\ retval <= MaxSigned

C7_Witness ==
    /\ IdentSizeDone
    /\ args.open = 0
    /\ args.search = WT_NOTFOUND
    /\ lookup.status.code = "NoSuchKey"
    /\ result.kind = "throw"

Min(S) == CHOOSE x \in S : \A y \in S : x <= y
Max(S) == CHOOSE x \in S : \A y \in S : y <= x
Last(q) == q[Len(q)]

\* Where the claim cuts a description: at its first ':', else at its first
\* ' ', else nowhere (0).
CutAt(d) ==
    LET colons == {i \in 1 .. Len(d) : d[i] = ":"}
        spaces == {i \in 1 .. Len(d) : d[i] = " "}
    IN  IF colons # {} THEN Min(colons) ELSE IF spaces # {} THEN Min(spaces) ELSE 0
ClaimedPrefix(d) == IF CutAt(d) = 0 THEN d ELSE SubSeq(d, 1, CutAt(d) - 1)
ClaimedSuffix(d) ==
    IF CutAt(d) = 0 THEN <<"n", "u", "m">> ELSE SubSeq(d, CutAt(d) + 1, Len(d))
Trimmed(t) ==
    LET k == CHOOSE k \in 0 .. Len(t) :
                 /\ \A i \in 1 .. k : t[i] = " "
                 /\ k < Len(t) => t[k + 1] # " "
    IN  SubSeq(t, k + 1, Len(t))
\* The element the claim expects for a row, and whether e is it.
Stores(e, name, row) ==
    /\ e.name = name
    /\ e.type = "number"
    /\ e.v \in castStatisticsValue(row.value)
    /\ row.value <= MaxSigned => e.v = row.value
Exporting == op = "exportTableToBSON"
Exported == Exporting /\ pc = "done" /\ result = StatusOK
SubDocuments == {i \in 1 .. Len(bob) : bob[i].type = "object"}

\* C8: each row's value goes to document[prefix][suffix without its leading
\* blanks], the description cut at its first ':', else at its first ' ', else
\* taken whole with suffix "num"; with an empty prefix it goes to
\* document[description] at the top level.
C8_RowPlacement ==
    /\ Exporting /\ pc = "loop" /\ seen # <<>> =>
         LET row == Last(seen)
             d == row.desc
         IN  /\ IF ClaimedPrefix(d) = <<>>
                THEN Stores(Last(bob), d, row)
                ELSE /\ ClaimedPrefix(d) \in DOMAIN subs
                     /\ Stores(Last(subs[ClaimedPrefix(d)]), Trimmed(ClaimedSuffix(d)), row)
             /\ d = CachePagesRead =>
                  Last(subs[<<"c", "a", "c", "h", "e">>]).name =
                      <<"p", "a", "g", "e", "s", " ", "r", "e", "a", "d">>
             /\ d = BytesWritten =>
                  Last(subs[<<"b", "y", "t", "e", "s">>]).name =
                      <<"w", "r", "i", "t", "t", "e", "n">>
             /\ d = Objects => Last(subs[Objects]).name = <<"n", "u", "m">>
    /\ Exported /\ Len(seen) = 1 =>
         LET row == seen[1]
             d == row.desc
         IN  /\ bob[1] = Element(Uri, "string", "uri")
             /\ Len(bob) = 2
             /\ IF ClaimedPrefix(d) = <<>>
                THEN Stores(bob[2], d, row)
                ELSE /\ bob[2].name = ClaimedPrefix(d)
                     /\ bob[2].type = "object"
                     /\ Len(bob[2].v) = 1
                     /\ Stores(bob[2].v[1], Trimmed(ClaimedSuffix(d)), row)

C8_Witness ==
    /\ Exported
    /\ seen = <<Row(CachePagesRead, 42)>>
    /\ bob = <<Element(Uri, "string", "uri"),
               SubDocument(<<"c", "a", "c", "h", "e">>,
                           <<Element(<<"p", "a", "g", "e", "s", " ", "r", "e", "a", "d">>,
                                     "number", 42)>>)>>

\* The rows that fall under prefix p, and the first of them.
RowsOf(p) == {k \in 1 .. Len(seen) : splitDescription(seen[k].desc).prefix = p}
FirstRow(p) == Min(RowsOf(p))

\* C9 as claimed: the sub-documents stand in the order in which their
\* prefixes first appeared among the rows.
C9_FirstAppearanceOrder ==
    Exported =>
        \A i, j \in SubDocuments : i < j => FirstRow(bob[i].name) < FirstRow(bob[j].name)

\* a sorts before b, byte by byte, a proper prefix before the longer text.
Common(a, b) ==
    Max({n \in 0 .. Len(a) : n <= Len(b) /\ \A i \in 1 .. n : a[i] = b[i]})
SortsBefore(a, b) ==
    LET n == Common(a, b)
    IN  IF n = Len(a) THEN Len(b) > n
        ELSE n < Len(b) /\ Ord(a[n + 1]) < Ord(b[n + 1])

\* C9 as the code has it: there is one sub-document per prefix, after the
\* "uri" field and the ungrouped values, and the sub-documents stand in
\* ascending byte order of their prefixes (the order of std::map), whatever
\* the order in which the prefixes first appeared.
C9_SubDocumentsInKeyOrder ==
    Exported =>
        /\ \A i, j \in SubDocuments : i < j => SortsBefore(bob[i].name, bob[j].name)
        /\ \A i \in SubDocuments, j \in 1 .. Len(bob) : j \notin SubDocuments => j < i
        /\ {bob[i].name : i \in SubDocuments} =
              {ClaimedPrefix(seen[k].desc) : k \in 1 .. Len(seen)} \ {<<>>}

C9_Witness ==
    /\ Exported
    /\ \E i, j \in SubDocuments :
         /\ i < j
         /\ FirstRow(bob[j].name) < FirstRow(bob[i].name)
         /\ SortsBefore(bob[i].name, bob[j].name)

\* C10 as claimed: when several rows give the same (prefix, trimmed suffix),
\* the sub-document holds one element of that name, with the last such row's
\* value.
C10_LastWriteWins ==
    Exported =>
        \A k \in 1 .. Len(seen) :
            LET p == splitDescription(seen[k].desc).prefix
                n == ltrim(splitDescription(seen[k].desc).suffix)
                same == {m \in RowsOf(p) : ltrim(splitDescription(seen[m].desc).suffix) = n}
            IN  p # <<>> =>
                  \E i \in SubDocuments :
                      /\ bob[i].name = p
                      /\ Cardinality({e \in 1 .. Len(bob[i].v) : bob[i].v[e].name = n}) = 1
                      /\ \A e \in 1 .. Len(bob[i].v) :
                            bob[i].v[e].name = n =>
                                bob[i].v[e].v \in castStatisticsValue(seen[Max(same)].value)

\* The e-th of the rows that fall under prefix p.
NthRowOf(p, e) ==
    CHOOSE k \in RowsOf(p) : Cardinality({m \in RowsOf(p) : m <= k}) = e

\* C10 as the code has it: nothing is overwritten.  The sub-document of a
\* prefix holds one element for each row of that prefix, in the order of the
\* rows, each with its own row's trimmed suffix and value; rows that give the
\* same (prefix, trimmed suffix) leave as many elements of that name.
C10_EveryRowAppended ==
    Exported =>
        \A i \in SubDocuments :
            /\ Len(bob[i].v) = Cardinality(RowsOf(bob[i].name))
            /\ \A e \in 1 .. Len(bob[i].v) :
                   LET row == seen[NthRowOf(bob[i].name, e)]
                   IN  Stores(bob[i].v[e], Trimmed(ClaimedSuffix(row.desc)), row)

C10_Witness ==
    /\ Exported
    /\ \E i \in SubDocuments :
         /\ Len(bob[i].v) = 2
         /\ bob[i].v[1].name = bob[i].v[2].name
         /\ bob[i].v[1].v # bob[i].v[2].v
         /\ seen[1].desc # seen[2].desc

NextTranslate == Translate

SpecTranslate == Init /\ [][NextTranslate]_vars

NextMetadata ==
    \/ GetApplicationMetadataCall
    \/ GetApplicationMetadataNext
    \/ CheckApplicationMetadataFormatVersion

SpecMetadata == Init /\ [][NextMetadata]_vars

NextStatistics ==
    \/ GetStatisticsValueCall
    \/ GetIdentSizeCall
    \/ GetStatisticsValueSearch
    \/ GetStatisticsValueGetValue
    \/ GetStatisticsValueEscape
    \/ GetStatisticsValueReturn
    \/ GetIdentSizeReturn
    \/ ExportTableToBSONCall
    \/ ExportTableToBSONAppendUri
    \/ ExportTableToBSONRow
    \/ ExportTableToBSONEnd
    \/ ExportTableToBSONEscape

SpecStatistics == Init /\ [][NextStatistics]_vars

Next == NextTranslate \/ NextMetadata \/ NextStatistics

Spec == Init /\ [][Next]_vars

====
